---- MODULE Spec2Model ----
(***************************************************************************)
(* Model of code/caption_parsers.py: JSONCaptionParser.extract,            *)
(* TXTCaptionParser.extract and collect_all_caption_data.                  *)
(*                                                                         *)
(* Text is a sequence of one-character strings.  A path is a sequence of   *)
(* components (each a text); an absolute path starts with the component    *)
(* RootC, the empty path stands for the string "", and a trailing empty    *)
(* component stands for a trailing separator.  Image names never contain   *)
(* a separator, so a name is always exactly one component.                 *)
(***************************************************************************)
EXTENDS Integers, Sequences, FiniteSets, TLC

VARIABLES
    fn,               \* which entry point runs: "txt", "json" or "collect"
    disk,             \* [dirs, files]: the absolute paths that exist
    validate_images,  \* the validate_images argument
    images_path,      \* the images_path argument of the two extract methods
    lines,            \* TXT: the lines of the file at file_path
    line_num,         \* TXT: number of lines consumed by the for loop
    caption_data,     \* JSON: what json.load meets in the file
    idx,              \* JSON: number of items consumed by the for loop
    status,           \* "open", "loop", "done" (returned) or "caught" (except branch, then returned)
    caption_mapping,  \* the extract methods' caption_mapping
    base_dir,         \* collect: the base_dir argument
    tree,             \* collect: the files os.walk yields, in walk order
    file_idx,         \* collect: number of files consumed by the walk loops
    all_captions,     \* collect: all_captions
    contribs          \* collect: history of the per-file `captions` dicts

vars == <<fn, disk, validate_images, images_path, lines, line_num, caption_data,
          idx, status, caption_mapping, base_dir, tree, file_idx, all_captions,
          contribs>>

(***************************************************************************)
(* Bounds of the exploration.                                              *)
(***************************************************************************)
MaxLines == 2       \* lines of the file given to TXTCaptionParser.extract
MaxItems == 2       \* elements of the JSON root array
MaxAnnLines == 2    \* lines of caption.txt / of a BNLIT annotation file
MaxTestLines == 2   \* lines of a BNATURE test.txt
MaxFiles == 3       \* files of a directory walk over short files

(***************************************************************************)
(* Text: str.strip, `in`, str.split(sep, 1), str.split(None, 1),           *)
(* str.startswith, str.endswith, str.lower.                                *)
(***************************************************************************)
WS == {" ", "\t"}

EmptyMap == [k \in {} |-> <<>>]

Last(s) == s[Len(s)]

Front(s) == SubSeq(s, 1, Len(s) - 1)

RECURSIVE LStrip(_)
LStrip(s) == IF s = <<>> \/ Head(s) \notin WS THEN s ELSE LStrip(Tail(s))

RECURSIVE RStrip(_)
RStrip(s) == IF s = <<>> \/ Last(s) \notin WS THEN s ELSE RStrip(Front(s))

Strip(s) == RStrip(LStrip(s))

StartsWith(s, p) == Len(s) >= Len(p) /\ SubSeq(s, 1, Len(p)) = p

EndsWith(s, p) == Len(s) >= Len(p) /\ SubSeq(s, Len(s) - Len(p) + 1, Len(s)) = p

\* index of the first occurrence of d in s at or after position i, 0 if none
RECURSIVE Find(_, _, _)
Find(s, d, i) ==
    IF i + Len(d) - 1 > Len(s) THEN 0
    ELSE IF SubSeq(s, i, i + Len(d) - 1) = d THEN i
    ELSE Find(s, d, i + 1)

Contains(s, d) == Find(s, d, 1) # 0

\* s.split(d, 1) for a d that occurs in s
Split1(s, d) ==
    LET p == Find(s, d, 1)
    IN  <<SubSeq(s, 1, p - 1), SubSeq(s, p + Len(d), Len(s))>>

\* index of the first whitespace character of s, 0 if none
RECURSIVE FindWs(_, _)
FindWs(s, i) ==
    IF i > Len(s) THEN 0
    ELSE IF s[i] \in WS THEN i
    ELSE FindWs(s, i + 1)

\* s.split(None, 1) for a stripped, non-empty s: one or two parts
SplitWs(s) ==
    LET p == FindWs(s, 1)
    IN  IF p = 0 THEN <<s>>
        ELSE <<SubSeq(s, 1, p - 1), LStrip(SubSeq(s, p, Len(s)))>>

UpperToLower ==
    [c \in {"A", "B", "E", "I", "L", "N", "S", "T", "X"} |->
        CASE c = "A" -> "a" [] c = "B" -> "b" [] c = "E" -> "e"
          [] c = "I" -> "i" [] c = "L" -> "l" [] c = "N" -> "n"
          [] c = "S" -> "s" [] c = "T" -> "t" [] c = "X" -> "x"]

Lower(s) ==
    [i \in 1..Len(s) |-> IF s[i] \in DOMAIN UpperToLower THEN UpperToLower[s[i]] ELSE s[i]]

(***************************************************************************)
(* Paths: os.path.join, os.path.normpath, os.path.abspath, exists, isdir.  *)
(***************************************************************************)
RootC == <<"/">>
Dot == <<".">>
DotDot == <<".", ".">>

\* the process's working directory, /w
Cwd == <<RootC, <<"w">>>>

\* os.path.join(p, n) for a component n that holds no separator
Join(p, n) ==
    IF p = <<>> THEN (IF n = <<>> THEN <<>> ELSE <<n>>)
    ELSE Append(p, n)

IsAbs(p) == p # <<>> /\ p[1] = RootC

RECURSIVE Norm(_, _)
Norm(rest, acc) ==
    IF rest = <<>> THEN acc
    ELSE LET c == Head(rest)
         IN  IF c = <<>> \/ c = Dot THEN Norm(Tail(rest), acc)
             ELSE IF c = DotDot
                  THEN IF acc # <<>> /\ Last(acc) \notin {DotDot, RootC}
                       THEN Norm(Tail(rest), Front(acc))
                       ELSE IF acc # <<>> /\ Last(acc) = RootC
                            THEN Norm(Tail(rest), acc)
                            ELSE Norm(Tail(rest), Append(acc, c))
                  ELSE Norm(Tail(rest), Append(acc, c))

Normpath(p) ==
    LET r == Norm(p, <<>>)
    IN  IF r = <<>> THEN <<Dot>> ELSE r

Abspath(p) == Normpath(IF IsAbs(p) THEN p ELSE Cwd \o p)

\* Path(p).exists() / os.path.exists(p) on the disk d (no symbolic links)
PathExists(d, p) ==
    IF p # <<>> /\ Last(p) = <<>>
    THEN Abspath(p) \in d.dirs
    ELSE Abspath(p) \in d.dirs \cup d.files

IsDir(d, p) == Abspath(p) \in d.dirs

\* m[k] = v as a dict store
Store(m, k, v) == [x \in DOMAIN m \cup {k} |-> IF x = k THEN v ELSE m[x]]

(***************************************************************************)
(* TXTCaptionParser.extract                                                *)
(***************************************************************************)
Sp3 == <<" ", " ", " ">>
SpHash == <<" ", "#">>
Hash == <<"#">>

\* delimiter detection that looks for " #" before the 3-space run
TxtPartsHashFirst(line) ==
    IF Contains(line, SpHash) THEN Split1(line, SpHash)
    ELSE IF Contains(line, Sp3) THEN Split1(line, Sp3)
    ELSE IF Contains(line, Hash) THEN Split1(line, Hash)
    ELSE <<>>

\* the delimiter detection of one stripped, non-blank line: the parts, or <<>>
TxtParts(line) ==
    IF Contains(line, Sp3) THEN Split1(line, Sp3)
    ELSE IF Contains(line, SpHash) THEN Split1(line, SpHash)
    ELSE IF Contains(line, Hash) THEN Split1(line, Hash)
    ELSE <<>>

\* one raw line to <<img_name, caption>>, or <<>> when the loop `continue`s
TxtPair(raw) ==
    LET line == Strip(raw)
    IN  IF line = <<>> THEN <<>>
        ELSE LET parts == TxtParts(line)
             IN  IF Len(parts) < 2 THEN <<>>
                 ELSE LET img_name == Strip(parts[1])
                          caption == Strip(parts[2])
                      IN  IF img_name = <<>> \/ caption = <<>> THEN <<>>
                          ELSE <<img_name, caption>>

\* a store that replaces the list instead of appending to it
SetDefaultAppendOverwrite(m, k, c) == Store(m, k, <<c>>)

\* caption_mapping.setdefault(k, []).append(c)
SetDefaultAppend(m, k, c) ==
    Store(m, k, IF k \in DOMAIN m THEN Append(m[k], c) ELSE <<c>>)

\* a loop body that stores the pair without looking at the disk
TxtBodyNoValidate(m, raw, ipath, validate, d) ==
    LET pair == TxtPair(raw)
    IN  IF pair = <<>> THEN m
        ELSE SetDefaultAppend(m, Join(ipath, pair[1]), pair[2])

\* the body of the for loop for one line
TxtBody(m, raw, ipath, validate, d) ==
    LET pair == TxtPair(raw)
    IN  IF pair = <<>> THEN m
        ELSE LET img_path_abs == Join(ipath, pair[1])
             IN  IF ~validate \/ PathExists(d, img_path_abs)
                 THEN SetDefaultAppend(m, img_path_abs, pair[2])
                 ELSE m

(***************************************************************************)
(* The disk and the arguments the entry points are run on.                 *)
(***************************************************************************)
PicturesName == <<"P", "i", "c", "t", "u", "r", "e", "s">>

BaseAbs == <<RootC, <<"w">>, <<"r">>>>
BaseRel == <<<<"r">>>>
CapDir(base) == Join(base, <<"c">>)
PicDir(base) == Join(base, PicturesName)

BaseDirs == {<<RootC>>, Cwd, BaseAbs, CapDir(BaseAbs)}

ImgA == <<"a">>
ImgB == <<"b">>

\* (images_path, validate_images, disk) for the two extract methods
ExtractEnvs ==
    { [ipath |-> <<>>, validate |-> FALSE,
       disk |-> [dirs |-> BaseDirs, files |-> {}]],
      [ipath |-> PicDir(BaseAbs), validate |-> FALSE,
       disk |-> [dirs |-> BaseDirs, files |-> {}]],
      [ipath |-> PicDir(BaseAbs), validate |-> TRUE,
       disk |-> [dirs |-> BaseDirs \cup {PicDir(BaseAbs)},
                 files |-> {Join(PicDir(BaseAbs), ImgA)}]],
      [ipath |-> PicDir(BaseRel), validate |-> TRUE,
       disk |-> [dirs |-> BaseDirs \cup {PicDir(BaseAbs)},
                 files |-> {Join(PicDir(BaseAbs), ImgA), Join(PicDir(BaseAbs), ImgB)}]] }

\* sequences over S of length at most n
SeqsUpTo(S, n) == UNION {[1..k -> S] : k \in 0..n}

\* the lines a delimited text file is made of
TxtLines ==
    {<<"a", " ", " ", " ", "x">>,
     <<"a", " ", "#", "x">>,
     <<"a", "#", "x">>,
     <<"b", " ", " ", " ", "x">>,
     <<"b", " ", "#", "x">>,
     <<"b", "#", "x">>,
     <<"a", " ", " ", " ", "y">>,
     <<"a", " ", "#", "y">>,
     <<>>,
     <<" ">>,
     <<"a", " ", "x">>,
     <<"#", "x">>,
     <<"a", " ", "#">>,
     <<"a", " ", " ", " ", "x", " ", "#", "y">>,
     <<"a", " ", "#", "x", " ", " ", " ", "y">>,
     <<"a", "#", "x", " ", "#", "y">>,
     <<"a", " ", "#", "x", "#", "y">>,
     <<" ", "a", " ", "#", "x", " ">>,
     <<"a", "\t", "#", "x">>,
     <<"a", " ", " ", " ", " ", "x">>,
     <<"a", " ", " ", "#", "x">>}

InitTxt ==
    /\ fn = "txt"
    /\ \E env \in ExtractEnvs :
         /\ images_path = env.ipath
         /\ validate_images = env.validate
         /\ disk = env.disk
    /\ lines \in SeqsUpTo(TxtLines, MaxLines)
    /\ line_num = 0
    /\ status = "loop"
    /\ caption_mapping = EmptyMap
    /\ caption_data = [t |-> "none"]
    /\ idx = 0
    /\ base_dir = <<>>
    /\ tree = <<>>
    /\ file_idx = 0
    /\ all_captions = EmptyMap
    /\ contribs = <<>>

\* one iteration of `for line_num, line in enumerate(file, start=1)`
TxtLine ==
    /\ fn = "txt"
    /\ status = "loop"
    /\ line_num < Len(lines)
    /\ line_num' = line_num + 1
    /\ caption_mapping' =
         TxtBody(caption_mapping, lines[line_num + 1], images_path, validate_images, disk)
    /\ UNCHANGED <<fn, disk, validate_images, images_path, lines, caption_data, idx,
                   status, base_dir, tree, file_idx, all_captions, contribs>>

\* the loop is exhausted: return caption_mapping
TxtReturn ==
    /\ fn = "txt"
    /\ status = "loop"
    /\ line_num = Len(lines)
    /\ status' = "done"
    /\ UNCHANGED <<fn, disk, validate_images, images_path, lines, line_num, caption_data,
                   idx, caption_mapping, base_dir, tree, file_idx, all_captions, contribs>>

NextTxt == TxtLine \/ TxtReturn

SpecTxt == InitTxt /\ [][NextTxt]_vars

(***************************************************************************)
(* Properties of TXTCaptionParser.extract.  The expected pair of a line is *)
(* stated from positions in the line, not computed by the parser.          *)
(***************************************************************************)
Occurs(s, d, p) == p >= 1 /\ p + Len(d) - 1 <= Len(s) /\ SubSeq(s, p, p + Len(d) - 1) = d

HasDelim(s, d) == \E p \in 1..Len(s) : Occurs(s, d, p)

FirstAt(s, d) ==
    CHOOSE p \in 1..Len(s) : Occurs(s, d, p) /\ \A q \in 1..(p - 1) : ~Occurs(s, d, q)

Trimmed(t) == t = <<>> \/ (t[1] \notin WS /\ t[Len(t)] \notin WS)

\* t is s without its leading and trailing whitespace
IsTrimOf(t, s) ==
    /\ Trimmed(t)
    /\ \E i \in 0..Len(s) :
         /\ i + Len(t) <= Len(s)
         /\ SubSeq(s, i + 1, i + Len(t)) = t
         /\ \A j \in (1..i) \cup ((i + Len(t) + 1)..Len(s)) : s[j] \in WS

TrimOf(s) ==
    CHOOSE t \in {SubSeq(s, i, j) : i \in 1..(Len(s) + 1), j \in 0..Len(s)} : IsTrimOf(t, s)

\* the delimiter the precedence rule selects for the trimmed line s, <<>> if none
ChosenDelim(s) ==
    IF HasDelim(s, Sp3) THEN Sp3
    ELSE IF HasDelim(s, SpHash) THEN SpHash
    ELSE IF HasDelim(s, Hash) THEN Hash
    ELSE <<>>

\* the (name, caption) pair a raw line stands for, <<>> if it stands for none
ExpectedPair(raw) ==
    LET s == TrimOf(raw)
        d == ChosenDelim(s)
    IN  IF s = <<>> \/ d = <<>> THEN <<>>
        ELSE LET p == FirstAt(s, d)
                 name == TrimOf(SubSeq(s, 1, p - 1))
                 cap == TrimOf(SubSeq(s, p + Len(d), Len(s)))
             IN  IF name = <<>> \/ cap = <<>> THEN <<>> ELSE <<name, cap>>

\* the captions of the accepted lines among the first n that carry `name`, in file order
RECURSIVE CaptionsOf(_, _)
CaptionsOf(name, n) ==
    IF n = 0 THEN <<>>
    ELSE LET pair == ExpectedPair(lines[n])
         IN  IF pair # <<>> /\ pair[1] = name
             THEN Append(CaptionsOf(name, n - 1), pair[2])
             ELSE CaptionsOf(name, n - 1)

NamesOfFile == {ExpectedPair(lines[i])[1] : i \in {j \in 1..Len(lines) : ExpectedPair(lines[j]) # <<>>}}

\* C1: with validate_images=False the list stored under join(images_path, name) is
\* exactly the captions of the accepted lines read so far that carry that name, in
\* file order (a later line appends), and no other key is stored.
C1_AppendPerName ==
    (fn = "txt" /\ ~validate_images) =>
        /\ \A name \in NamesOfFile :
             LET k == Join(images_path, name)
                 expected == CaptionsOf(name, line_num)
             IN  IF expected = <<>> THEN k \notin DOMAIN caption_mapping
                 ELSE k \in DOMAIN caption_mapping /\ caption_mapping[k] = expected
        /\ DOMAIN caption_mapping \subseteq {Join(images_path, name) : name \in NamesOfFile}

\* a file in which two accepted lines carry the same name with different captions
C1_Witness ==
    /\ fn = "txt" /\ ~validate_images /\ status = "done"
    /\ \E name \in NamesOfFile :
         /\ Len(CaptionsOf(name, line_num)) = 2
         /\ CaptionsOf(name, line_num)[1] # CaptionsOf(name, line_num)[2]
         /\ caption_mapping[Join(images_path, name)] = CaptionsOf(name, line_num)

\* C2: every line is split on the first occurrence of the one delimiter the
\* precedence 3-space, " #", "#" selects; a line with no delimiter or with an empty
\* name or caption part leaves the mapping as it was, and the loop goes on.
C2_DelimiterPrecedence ==
    [][(fn = "txt" /\ line_num' = line_num + 1) =>
          LET pair == ExpectedPair(lines[line_num'])
          IN  /\ status' = "loop"
              /\ IF pair = <<>> THEN caption_mapping' = caption_mapping
                 ELSE LET k == Join(images_path, pair[1])
                      IN  IF validate_images /\ ~PathExists(disk, k)
                          THEN caption_mapping' = caption_mapping
                          ELSE /\ DOMAIN caption_mapping' = DOMAIN caption_mapping \cup {k}
                               /\ caption_mapping'[k] =
                                    (IF k \in DOMAIN caption_mapping
                                     THEN caption_mapping[k] ELSE <<>>) \o <<pair[2]>>
                               /\ \A x \in DOMAIN caption_mapping \ {k} :
                                    caption_mapping'[x] = caption_mapping[x]]_vars

\* a line holding " #" before a 3-space run was split on the 3-space run, after a
\* line without any delimiter was passed over
C2_Witness ==
    /\ fn = "txt" /\ status = "done" /\ ~validate_images /\ Len(lines) = 2
    /\ ChosenDelim(TrimOf(lines[1])) = <<>> /\ TrimOf(lines[1]) # <<>>
    /\ HasDelim(lines[2], SpHash) /\ HasDelim(lines[2], Sp3)
    /\ FirstAt(lines[2], SpHash) < FirstAt(lines[2], Sp3)
    /\ ExpectedPair(lines[2]) # <<>>
    /\ caption_mapping = (Join(images_path, ExpectedPair(lines[2])[1]) :> <<ExpectedPair(lines[2])[2]>>)

(***************************************************************************)
(* JSONCaptionParser.extract                                               *)
(*                                                                         *)
(* A JSON value is a record tagged by its Python type after json.load:     *)
(* "str" (s), "num" (n), "null", "list" (l) or "dict" (d: keys to values).   *)
(* [t |-> "invalid"] stands for a file json.load cannot decode.            *)
(***************************************************************************)
JStr(s) == [t |-> "str", s |-> s]
JNum(n) == [t |-> "num", n |-> n]
JNull == [t |-> "null"]
JList(l) == [t |-> "list", l |-> l]
JDict(f) == [t |-> "dict", d |-> f]

DigitChar == <<"0", "1", "2", "3", "4", "5", "6", "7", "8", "9">>

RECURSIVE Digits(_)
Digits(n) ==
    IF n < 10 THEN <<DigitChar[n + 1]>>
    ELSE Append(Digits(n \div 10), DigitChar[(n % 10) + 1])

\* str(c) of a scalar
Str(c) ==
    CASE c.t = "str" -> c.s
      [] c.t = "num" -> Digits(c.n)
      [] c.t = "null" -> <<"N", "o", "n", "e">>

\* the truth value of c in `if c`
Truthy(c) ==
    CASE c.t = "str" -> c.s # <<>>
      [] c.t = "num" -> c.n # 0
      [] c.t = "null" -> FALSE
      [] c.t = "list" -> c.l # <<>>
      [] c.t = "dict" -> DOMAIN c.d # {}

\* the test of line 74 that lets an item through
JsonShapeOk(item) ==
    item.t = "dict" /\ "filename" \in DOMAIN item.d /\ "caption" \in DOMAIN item.d

\* item['filename'].strip() raises AttributeError unless the value is a str
JsonFilenameRaises(item) == item.d.filename.t # "str"

\* captions_raw after the isinstance(captions_raw, list) coercion
CaptionsRaw(item) ==
    IF item.d.caption.t = "list" THEN item.d.caption.l ELSE <<item.d.caption>>

\* formatting that appends the space without stripping first
RECURSIVE FormattedNoStrip(_)
FormattedNoStrip(raw) ==
    IF raw = <<>> THEN <<>>
    ELSE IF Truthy(Head(raw))
         THEN <<Str(Head(raw)) \o <<" ">>>> \o FormattedNoStrip(Tail(raw))
         ELSE FormattedNoStrip(Tail(raw))

\* [str(c).strip() + " " for c in captions_raw if c]
RECURSIVE Formatted(_)
Formatted(raw) ==
    IF raw = <<>> THEN <<>>
    ELSE IF Truthy(Head(raw))
         THEN <<Strip(Str(Head(raw))) \o <<" ">>>> \o Formatted(Tail(raw))
         ELSE Formatted(Tail(raw))

\* lines 77-85 for an item whose filename is a str
JsonBody(m, item, ipath, validate, d) ==
    LET img_name_abs == Join(ipath, Strip(item.d.filename.s))
        formatted == Formatted(CaptionsRaw(item))
    IN  IF (~validate \/ PathExists(d, img_name_abs)) /\ formatted # <<>>
        THEN Store(m, img_name_abs, formatted)
        ELSE m

Item(f, c) == JDict([filename |-> f, caption |-> c])

\* the elements a JSON root array is made of
JsonItems ==
    { Item(JStr(<<"a">>), JStr(<<"x">>)),
      Item(JStr(<<"a">>), JStr(<<" ", "y", " ">>)),
      Item(JStr(<<" ", "a">>), JList(<<JStr(<<"x">>), JStr(<<"y">>)>>)),
      Item(JStr(<<"b">>), JList(<<JStr(<<>>), JStr(<<"x">>)>>)),
      Item(JStr(<<"b">>), JList(<<JNum(12), JNull, JStr(<<"x", " ">>)>>)),
      Item(JStr(<<"a">>), JStr(<<>>)),
      Item(JStr(<<"a">>), JList(<<>>)),
      Item(JStr(<<"b">>), JNum(0)),
      Item(JStr(<<"b">>), JNum(7)),
      Item(JStr(<<"b">>), JStr(<<" ">>)),
      Item(JStr(<<>>), JStr(<<"x">>)),
      JNum(5),
      JStr(<<"a">>),
      JDict([filename |-> JStr(<<"a">>)]),
      JDict([caption |-> JStr(<<"x">>)]),
      Item(JNum(5), JStr(<<"x">>)),
      Item(JNull, JList(<<JStr(<<"x">>)>>)) }

JsonRoots ==
    {[t |-> "invalid"], JDict([filename |-> JStr(<<"a">>), caption |-> JStr(<<"x">>)])}
        \cup {JList(l) : l \in SeqsUpTo(JsonItems, MaxItems)}

InitJson ==
    /\ fn = "json"
    /\ \E env \in ExtractEnvs :
         /\ images_path = env.ipath
         /\ validate_images = env.validate
         /\ disk = env.disk
    /\ caption_data \in JsonRoots
    /\ idx = 0
    /\ status = "open"
    /\ caption_mapping = EmptyMap
    /\ lines = <<>>
    /\ line_num = 0
    /\ base_dir = <<>>
    /\ tree = <<>>
    /\ file_idx = 0
    /\ all_captions = EmptyMap
    /\ contribs = <<>>

JsonUnchanged ==
    UNCHANGED <<fn, disk, validate_images, images_path, lines, line_num, caption_data,
                base_dir, tree, file_idx, all_captions, contribs>>

\* json.load and the isinstance(caption_data, list) test
JsonLoad ==
    /\ fn = "json"
    /\ status = "open"
    /\ status' = CASE caption_data.t = "invalid" -> "caught"
                   [] caption_data.t = "list" -> "loop"
                   [] OTHER -> "done"
    /\ UNCHANGED <<idx, caption_mapping>>
    /\ JsonUnchanged

\* an item that fails the test of line 74: continue
JsonSkipItem ==
    /\ fn = "json"
    /\ status = "loop"
    /\ idx < Len(caption_data.l)
    /\ ~JsonShapeOk(caption_data.l[idx + 1])
    /\ idx' = idx + 1
    /\ UNCHANGED <<status, caption_mapping>>
    /\ JsonUnchanged

\* an item that passes the test and whose filename is a str
JsonItem ==
    /\ fn = "json"
    /\ status = "loop"
    /\ idx < Len(caption_data.l)
    /\ JsonShapeOk(caption_data.l[idx + 1])
    /\ ~JsonFilenameRaises(caption_data.l[idx + 1])
    /\ idx' = idx + 1
    /\ caption_mapping' =
         JsonBody(caption_mapping, caption_data.l[idx + 1], images_path, validate_images, disk)
    /\ UNCHANGED status
    /\ JsonUnchanged

\* an item whose filename has no strip(): the exception leaves the loop and is
\* caught by `except Exception`, after which caption_mapping is returned
JsonItemRaises ==
    /\ fn = "json"
    /\ status = "loop"
    /\ idx < Len(caption_data.l)
    /\ JsonShapeOk(caption_data.l[idx + 1])
    /\ JsonFilenameRaises(caption_data.l[idx + 1])
    /\ status' = "caught"
    /\ UNCHANGED <<idx, caption_mapping>>
    /\ JsonUnchanged

\* the loop is exhausted: return caption_mapping
JsonReturn ==
    /\ fn = "json"
    /\ status = "loop"
    /\ idx = Len(caption_data.l)
    /\ status' = "done"
    /\ UNCHANGED <<idx, caption_mapping>>
    /\ JsonUnchanged

NextJson == JsonLoad \/ JsonSkipItem \/ JsonItem \/ JsonItemRaises \/ JsonReturn

SpecJson == InitJson /\ [][NextJson]_vars

(***************************************************************************)
(* Properties of JSONCaptionParser.extract                                 *)
(***************************************************************************)
Items == IF caption_data.t = "list" THEN caption_data.l ELSE <<>>

\* element i is an object with both keys and a str filename
WellFormed(i) == JsonShapeOk(Items[i]) /\ Items[i].d.filename.t = "str"

KeyOf(i) == Join(images_path, TrimOf(Items[i].d.filename.s))

\* positions of the captions of element i that are not falsy
SurvIdx(i) == {j \in 1..Len(CaptionsRaw(Items[i])) : Truthy(CaptionsRaw(Items[i])[j])}

CaptionCount(i) == Cardinality(SurvIdx(i))

\* the n-th caption of element i that is not falsy
NthSurv(i, n) ==
    CaptionsRaw(Items[i])[CHOOSE j \in SurvIdx(i) : Cardinality({q \in SurvIdx(i) : q <= j}) = n]

\* the list at key k is the formatted caption list of element i
EntryIsOf(k, i) ==
    /\ k \in DOMAIN caption_mapping
    /\ Len(caption_mapping[k]) = CaptionCount(i)
    /\ \A n \in 1..CaptionCount(i) :
         caption_mapping[k][n] = TrimOf(Str(NthSurv(i, n))) \o <<" ">>

\* C3 as stated: with validate_images=False every element that has both keys has a
\* mapping entry whose length is that element's caption count (falsy captions
\* dropped), each caption the trimmed string form plus one trailing space.
C3_EveryElementHasItsEntry ==
    (fn = "json" /\ ~validate_images /\ status = "done") =>
        \A i \in 1..Len(Items) : WellFormed(i) => EntryIsOf(KeyOf(i), i)

\* C3 amended: with validate_images=False, among the elements consumed so far, a key
\* is present exactly when some element with both keys and at least one non-falsy
\* caption resolves to it, and its list is the formatted caption list of the last
\* such element (a later element with the same key replaces the earlier list).
C3_LastElementPerKey ==
    (fn = "json" /\ ~validate_images) =>
        LET live == {i \in 1..idx : WellFormed(i) /\ CaptionCount(i) > 0}
        IN  /\ DOMAIN caption_mapping = {KeyOf(i) : i \in live}
            /\ \A i \in live :
                 (\A j \in live : KeyOf(j) = KeyOf(i) => j <= i) => EntryIsOf(KeyOf(i), i)

\* two elements with the same key, the first with two captions, were both consumed
C3_Witness ==
    /\ fn = "json" /\ ~validate_images /\ status = "done" /\ Len(Items) = 2
    /\ WellFormed(1) /\ WellFormed(2)
    /\ KeyOf(1) = KeyOf(2)
    /\ CaptionCount(1) = 2 /\ CaptionCount(2) = 1
    /\ Len(caption_mapping[KeyOf(1)]) = 1

\* C10: once extract has returned, every well-formed element of the array that has a
\* non-falsy caption (and, under validation, an existing image) has its entry,
\* whether it stands before or after a malformed element.
C10_MalformedElementSkippedAlone ==
    (fn = "json" /\ status \in {"done", "caught"} /\ caption_data.t = "list") =>
        \A i \in 1..Len(Items) :
            (/\ WellFormed(i)
             /\ CaptionCount(i) > 0
             /\ (~validate_images \/ PathExists(disk, KeyOf(i))))
                => KeyOf(i) \in DOMAIN caption_mapping

(***************************************************************************)
(* collect_all_caption_data: file-name dispatch                            *)
(***************************************************************************)
TestTxt ==
    <<"t", "e", "s", "t", ".", "t", "x", "t">>

CaptionTxt ==
    <<"c", "a", "p", "t", "i", "o", "n", ".", "t", "x", "t">>

TestAnnotation ==
    <<"t", "e", "s", "t", "-", "a", "n", "n", "o", "t", "a", "t", "i", "o", "n">>

Bnlit ==
    <<"b", "n", "l", "i", "t">>

BnlitLongPrefix ==
    <<"t", "e", "s", "t", "-", "a", "n", "n", "o", "t", "a", "t", "i", "o", "n", "-",
      "b", "a", "n", "g", "l", "a", " ", "n", "a", "t", "u", "r", "a", "l", " ", "l",
      "a", "n", "g", "u", "a", "g", "e", " ", "i", "m", "a", "g", "e", " ", "t", "o",
      " ", "t", "e", "x", "t">>

resized_folder ==
    <<"B", "a", "n", "g", "l", "a", " ", "N", "a", "t", "u", "r", "a", "l", " ", "L",
      "a", "n", "g", "u", "a", "g", "e", " ", "I", "m", "a", "g", "e", " ", "t", "o",
      " ", "T", "e", "x", "t", " ", "(", "B", "N", "L", "I", "T", ")", "-", "P", "r",
      "e", "p", "r", "o", "c", "e", "s", "s", "i", "n", "g", " ", "a", "n", "d", " ",
      "R", "e", "s", "i", "z", "i", "n", "g", " ", "D", "a", "t", "a", "s", "e", "t",
      "-", "r", "e", "s", "i", "z", "e", "d", "-", "5", "0", "0", "_", "3", "7", "5">>

DotTxt ==
    <<".", "t", "x", "t">>

DotJson ==
    <<".", "j", "s", "o", "n">>

SkipWords ==
    { <<"t", "r", "a", "i", "n">>,
      <<"v", "a", "l", "i", "d", "a", "t", "i", "o", "n">>,
      <<"v", "a", "l">>,
      <<"c", "a", "p", "t", "i", "o", "n">> }

\* line 188
IsBnature(lower_file) == lower_file = TestTxt

\* a rule that accepts a name holding either word
IsBnlitEitherWord(lower_file) ==
    \/ Contains(lower_file, TestAnnotation) \/ Contains(lower_file, Bnlit)
    \/ StartsWith(lower_file, BnlitLongPrefix)

\* lines 252-253
IsBnlit(lower_file) ==
    \/ Contains(lower_file, TestAnnotation) /\ Contains(lower_file, Bnlit)
    \/ StartsWith(lower_file, BnlitLongPrefix)

\* line 295
IsTxtOrJson(lower_file) == EndsWith(lower_file, DotTxt) \/ EndsWith(lower_file, DotJson)

\* line 297
HasSkipWord(lower_file) == \E skip_word \in SkipWords : Contains(lower_file, skip_word)

\* the branch of the if/elif chain a file name takes
Branch(file) ==
    LET lower_file == Lower(file)
    IN  IF IsBnature(lower_file) THEN "bnature"
        ELSE IF IsBnlit(lower_file) THEN "bnlit"
        ELSE IF IsTxtOrJson(lower_file) /\ HasSkipWord(lower_file) THEN "skip"
        ELSE "none"

(***************************************************************************)
(* collect_all_caption_data: the BNATURE branch                            *)
(***************************************************************************)
\* the content of the file `name` of directory dir in the tree t, as <<content>>,
\* or <<>> when there is no such file
FileAt(t, dir, name) ==
    LET hits == {i \in 1..Len(t) : t[i].dir = dir /\ t[i].name = name}
    IN  IF hits = {} THEN <<>> ELSE <<t[CHOOSE i \in hits : TRUE].content>>

\* lines 198-204: the stripped non-blank lines of test.txt
RECURSIVE TestImageNames(_)
TestImageNames(content) ==
    IF content = <<>> THEN <<>>
    ELSE LET ln == Strip(Head(content))
         IN  IF ln # <<>> THEN <<ln>> \o TestImageNames(Tail(content))
             ELSE TestImageNames(Tail(content))

\* lines 214-231: one line of caption.txt to <<imgname, cap>>, or <<>>
BnaturePair(raw) ==
    LET ln == Strip(raw)
    IN  IF ln = <<>> THEN <<>>
        ELSE LET parts ==
                     IF Contains(ln, Sp3) THEN Split1(ln, Sp3)
                     ELSE IF Contains(ln, SpHash) THEN Split1(ln, SpHash)
                     ELSE IF Contains(ln, Hash) THEN Split1(ln, Hash)
                     ELSE SplitWs(ln)
             IN  IF Len(parts) < 2 THEN <<>>
                 ELSE LET imgname == Strip(parts[1])
                          cap == Strip(parts[2])
                      IN  IF imgname # <<>> /\ cap # <<>> THEN <<imgname, cap>> ELSE <<>>

\* lines 209-234: cap_map after the lines of caption.txt
RECURSIVE CapMap(_, _)
CapMap(content, cap_map) ==
    IF content = <<>> THEN cap_map
    ELSE LET pair == BnaturePair(Head(content))
         IN  CapMap(Tail(content),
                    IF pair = <<>> THEN cap_map
                    ELSE SetDefaultAppend(cap_map, pair[1], pair[2]))

\* a join that takes every name of cap_map, listed in test.txt or not
BnatureJoinAll(names, cap_map, pictures_dir, validate, d, captions) ==
    LET all == {Abspath(Join(pictures_dir, n)) : n \in DOMAIN cap_map}
    IN  [k \in all |-> cap_map[CHOOSE n \in DOMAIN cap_map : Abspath(Join(pictures_dir, n)) = k]]

\* lines 237-243: the loop over test_image_names
RECURSIVE BnatureJoin(_, _, _, _, _, _)
BnatureJoin(names, cap_map, pictures_dir, validate, d, captions) ==
    IF names = <<>> THEN captions
    ELSE LET imgname == Head(names)
             caps == IF imgname \in DOMAIN cap_map THEN cap_map[imgname] ELSE <<>>
             img_path == Join(pictures_dir, imgname)
         IN  BnatureJoin(Tail(names), cap_map, pictures_dir, validate, d,
                 IF caps # <<>> /\ (~validate \/ PathExists(d, img_path))
                 THEN Store(captions, Abspath(img_path), caps)
                 ELSE captions)

\* lines 192-243: the `captions` dict of a file named test.txt
Bnature(f, t, validate, d) ==
    LET bnature_caption_dir == f.dir
        bnature_root == Normpath(Join(bnature_caption_dir, DotDot))
        pictures_dir == Join(bnature_root, PicturesName)
        captions_file == FileAt(t, bnature_caption_dir, CaptionTxt)
        test_image_names == TestImageNames(f.content)
        cap_map == IF captions_file # <<>> THEN CapMap(captions_file[1], EmptyMap) ELSE EmptyMap
    IN  BnatureJoin(test_image_names, cap_map, pictures_dir, validate, d, EmptyMap)

(***************************************************************************)
(* collect_all_caption_data: the BNLIT branch                              *)
(***************************************************************************)
\* a resolution without fallback: always the resized folder
ImagesDirNoFallback(bnlit_root, d) == Join(bnlit_root, resized_folder)

\* lines 255-266: the images directory of an annotation file in bnlit_root
ImagesDir(bnlit_root, d) ==
    LET images_dir == Join(bnlit_root, resized_folder)
    IN  IF ~IsDir(d, images_dir)
        THEN IF IsDir(d, bnlit_root) THEN bnlit_root
             ELSE Normpath(Join(bnlit_root, DotDot))
        ELSE images_dir

\* lines 272-285: one annotation line to <<imgname, cap>>, or <<none>> on `continue`
BnlitPair(raw) ==
    LET ln == Strip(raw)
    IN  IF ln = <<>> THEN <<"none">>
        ELSE LET parts ==
                     IF Contains(ln, SpHash) THEN Split1(ln, SpHash)
                     ELSE IF Contains(ln, Hash) THEN Split1(ln, Hash)
                     ELSE SplitWs(ln)
             IN  IF Len(parts) < 2 THEN <<"none">>
                 ELSE <<Strip(parts[1]), Strip(parts[2])>>

\* lines 271-288: the loop over the annotation lines
RECURSIVE BnlitLines(_, _, _, _, _)
BnlitLines(content, images_dir, validate, d, captions) ==
    IF content = <<>> THEN captions
    ELSE LET pair == BnlitPair(Head(content))
         IN  BnlitLines(Tail(content), images_dir, validate, d,
                 IF Len(pair) < 2 THEN captions
                 ELSE LET img_path == Join(images_dir, pair[1])
                      IN  IF ~validate \/ PathExists(d, img_path)
                          THEN SetDefaultAppend(captions, Abspath(img_path), pair[2])
                          ELSE captions)

\* lines 255-290: the `captions` dict of a BNLIT test-annotation file
BnlitFile(f, validate, d) ==
    BnlitLines(f.content, ImagesDir(f.dir, d), validate, d, EmptyMap)

\* a merge that keeps the list a key already has
UpdateKeepFirst(all, captions) ==
    [k \in DOMAIN all \cup DOMAIN captions |-> IF k \in DOMAIN all THEN all[k] ELSE captions[k]]

\* lines 303-304: all_captions.update(captions)
Update(all, captions) ==
    [k \in DOMAIN all \cup DOMAIN captions |->
        IF k \in DOMAIN captions THEN captions[k] ELSE all[k]]

(***************************************************************************)
(* The directory trees collect_all_caption_data is run on.  A tree is the  *)
(* sequence of files os.walk yields, each [dir, name, content]; dir is the *)
(* `root` of the walk, that is base_dir joined with the sub-directory.     *)
(* Image files are kept in `disk` only: their names end in neither .txt    *)
(* nor .json and match no rule, so visiting them changes nothing.          *)
(***************************************************************************)
NameTestUpper ==
    <<"T", "E", "S", "T", ".", "T", "X", "T">>

NameBnlit ==
    <<"T", "e", "s", "t", "-", "A", "n", "n", "o", "t", "a", "t", "i", "o", "n", "-",
      "B", "N", "L", "I", "T", ".", "t", "x", "t">>

NameBnlitLong ==
    <<"T", "e", "s", "t", "-", "A", "n", "n", "o", "t", "a", "t", "i", "o", "n", "-",
      "B", "a", "n", "g", "l", "a", " ", "N", "a", "t", "u", "r", "a", "l", " ", "L",
      "a", "n", "g", "u", "a", "g", "e", " ", "I", "m", "a", "g", "e", " ", "t", "o",
      " ", "T", "e", "x", "t", ".", "t", "x", "t">>

NameBnlitVal ==
    <<"v", "a", "l", "-", "t", "e", "s", "t", "-", "a", "n", "n", "o", "t", "a", "t",
      "i", "o", "n", "-", "b", "n", "l", "i", "t", ".", "t", "x", "t">>

NameBnlitTrain ==
    <<"b", "n", "l", "i", "t", "_", "t", "r", "a", "i", "n", ".", "t", "x", "t">>

NameTrainCaptions ==
    <<"t", "r", "a", "i", "n", "_", "c", "a", "p", "t", "i", "o", "n", "s", ".", "t",
      "x", "t">>

NameNotes ==
    <<"n", "o", "t", "e", "s", ".", "t", "x", "t">>

NameDataJson ==
    <<"d", "a", "t", "a", ".", "j", "s", "o", "n">>

NameImgPng ==
    <<"i", "m", "g", ".", "p", "n", "g">>

\* the lines caption.txt and a BNLIT annotation file are made of
AnnLines ==
    {<<"a", " ", "#", "x">>,
     <<"a", "#", "y">>,
     <<"b", " ", " ", " ", "x">>,
     <<"a">>,
     <<"#", "x">>,
     <<"a", " ", "#">>,
     <<>>}

\* the lines a BNATURE test.txt is made of
TestLines ==
    {<<"a">>,
     <<" ", "b", " ">>,
     <<>>}

File(dir, name, content) == [dir |-> dir, name |-> name, content |-> content]

ResizedDir(base) == Join(CapDir(base), resized_folder)

\* (base_dir, validate_images, disk) for collect_all_caption_data
CollectEnvs ==
    { [base |-> BaseRel, validate |-> FALSE,
       disk |-> [dirs |-> BaseDirs, files |-> {}]],
      [base |-> BaseAbs, validate |-> TRUE,
       disk |-> [dirs |-> BaseDirs \cup {PicDir(BaseAbs)},
                 files |-> {Join(PicDir(BaseAbs), ImgA), Join(CapDir(BaseAbs), ImgA)}]],
      [base |-> BaseAbs, validate |-> TRUE,
       disk |-> [dirs |-> BaseDirs \cup {PicDir(BaseAbs), ResizedDir(BaseAbs)},
                 files |-> {Join(PicDir(BaseAbs), ImgA), Join(PicDir(BaseAbs), ImgB),
                            Join(ResizedDir(BaseAbs), ImgA)}]],
      [base |-> BaseRel, validate |-> FALSE,
       disk |-> [dirs |-> BaseDirs \cup {PicDir(BaseAbs), ResizedDir(BaseAbs)},
                 files |-> {}]] }

\* one dataset with files of up to MaxTestLines / MaxAnnLines lines
DatasetTrees(base) ==
    {<<File(CapDir(base), CaptionTxt, c), File(CapDir(base), TestTxt, t)>> :
        c \in SeqsUpTo(AnnLines, MaxAnnLines), t \in SeqsUpTo(TestLines, MaxTestLines)}
    \cup {<<File(CapDir(base), TestTxt, t)>> : t \in SeqsUpTo(TestLines, MaxTestLines)}
    \cup {<<File(CapDir(base), NameBnlit, c)>> : c \in SeqsUpTo(AnnLines, MaxAnnLines)}

\* the files a walk over several files is made of
WalkFiles(base) ==
    { File(CapDir(base), TestTxt, <<<<"a">>, <<" ", "b", " ">>>>),
      File(CapDir(base), NameTestUpper, <<<<"a">>>>),
      File(CapDir(base), CaptionTxt, <<<<"a", " ", "#", "x">>, <<"b", "#", "y">>>>),
      File(CapDir(base), NameBnlit, <<<<"a", " ", "#", "x">>>>),
      File(CapDir(base), NameBnlitLong, <<<<"a", " ", "#", "y">>, <<"b", " ", "#", "x">>>>),
      File(CapDir(base), NameBnlitVal, <<<<"b", " ", "#", "y">>>>),
      File(CapDir(base), NameBnlitTrain, <<<<"a", " ", "#", "x">>>>),
      File(CapDir(base), NameTrainCaptions, <<<<"a", " ", " ", " ", "x">>>>),
      File(CapDir(base), NameNotes, <<<<"a", " ", " ", " ", "x">>>>),
      File(CapDir(base), NameDataJson, <<>>),
      File(CapDir(base), NameImgPng, <<>>),
      File(PicDir(base), NameBnlit, <<<<"a", " ", "#", "y">>>>) }

\* os.walk yields the files of one directory together, and no file twice
WalkOrder(t) ==
    /\ \A i, j \in 1..Len(t) : i < j => ~(t[i].dir = t[j].dir /\ t[i].name = t[j].name)
    /\ \A i, j, k \in 1..Len(t) : (i < j /\ j < k /\ t[i].dir = t[k].dir) => t[j].dir = t[i].dir

WalkTrees(base) == {t \in SeqsUpTo(WalkFiles(base), MaxFiles) : Len(t) >= 2 /\ WalkOrder(t)}

InitCollect ==
    /\ fn = "collect"
    /\ \E env \in CollectEnvs :
         /\ base_dir = env.base
         /\ validate_images = env.validate
         /\ disk = env.disk
         /\ tree \in DatasetTrees(env.base) \cup WalkTrees(env.base)
         /\ \A i \in 1..Len(tree) : IsDir(env.disk, tree[i].dir)
    /\ file_idx = 0
    /\ status = "loop"
    /\ all_captions = EmptyMap
    /\ contribs = <<>>
    /\ images_path = <<>>
    /\ lines = <<>>
    /\ line_num = 0
    /\ caption_data = [t |-> "none"]
    /\ idx = 0
    /\ caption_mapping = EmptyMap

CollectUnchanged ==
    UNCHANGED <<fn, disk, validate_images, images_path, lines, line_num, caption_data,
                idx, caption_mapping, base_dir, tree>>

\* the file the walk hands out next
NextFile == tree[file_idx + 1]

\* a file taken by the branch b, with its `captions` dict merged when not empty
Visit(b, captions) ==
    /\ fn = "collect"
    /\ status = "loop"
    /\ file_idx < Len(tree)
    /\ Branch(NextFile.name) = b
    /\ file_idx' = file_idx + 1
    /\ contribs' = Append(contribs, captions)
    /\ all_captions' = IF DOMAIN captions # {} THEN Update(all_captions, captions)
                       ELSE all_captions
    /\ UNCHANGED status
    /\ CollectUnchanged

\* a file named test.txt: the BNATURE join, then the merge
VisitBnature == Visit("bnature", Bnature(NextFile, tree, validate_images, disk))

\* a BNLIT test-annotation file: its lines, then the merge
VisitBnlit == Visit("bnlit", BnlitFile(NextFile, validate_images, disk))

\* a .txt/.json file with a skip word: `continue`, the merge is not reached
VisitSkipped ==
    /\ fn = "collect"
    /\ status = "loop"
    /\ file_idx < Len(tree)
    /\ Branch(NextFile.name) = "skip"
    /\ file_idx' = file_idx + 1
    /\ contribs' = Append(contribs, EmptyMap)
    /\ UNCHANGED <<status, all_captions>>
    /\ CollectUnchanged

\* any other file: no branch fills `captions`, the merge finds it empty
VisitUnhandled == Visit("none", EmptyMap)

\* the walk is exhausted: return all_captions
CollectReturn ==
    /\ fn = "collect"
    /\ status = "loop"
    /\ file_idx = Len(tree)
    /\ status' = "done"
    /\ UNCHANGED <<file_idx, all_captions, contribs>>
    /\ CollectUnchanged

NextCollect == VisitBnature \/ VisitBnlit \/ VisitSkipped \/ VisitUnhandled \/ CollectReturn

SpecCollect == InitCollect /\ [][NextCollect]_vars

(***************************************************************************)
(* The three entry points together.                                        *)
(***************************************************************************)
Init == InitTxt \/ InitJson \/ InitCollect

Next == NextTxt \/ NextJson \/ NextCollect

Spec == Init /\ [][Next]_vars

(***************************************************************************)
(* Properties of image validation, all three entry points                  *)
(***************************************************************************)
\* the path k, resolved against the working directory, is a file or directory
OnDisk(k) == Abspath(k) \in disk.dirs \cup disk.files

\* C4: with validate_images=True every key of the mapping built by either extract
\* method or by collect_all_caption_data names a path that exists on disk.
C4_KeysExistWhenValidating ==
    validate_images =>
        /\ \A k \in DOMAIN caption_mapping : OnDisk(k)
        /\ \A k \in DOMAIN all_captions : OnDisk(k)
        /\ \A i \in 1..Len(contribs) : \A k \in DOMAIN contribs[i] : OnDisk(k)

\* a validated BNATURE join in which a listed, captioned image is missing from
\* Pictures and left out while another one is kept
C4_Witness ==
    /\ fn = "collect" /\ validate_images /\ status = "done" /\ Len(tree) = 2
    /\ tree[2].name = TestTxt
    /\ \E i, j \in 1..Len(tree[2].content) :
         /\ Strip(tree[2].content[i]) = ImgA
         /\ Strip(tree[2].content[j]) = ImgB
    /\ \E i, j \in 1..Len(tree[1].content) :
         /\ BnaturePair(tree[1].content[i]) # <<>> /\ BnaturePair(tree[1].content[i])[1] = ImgA
         /\ BnaturePair(tree[1].content[j]) # <<>> /\ BnaturePair(tree[1].content[j])[1] = ImgB
    /\ ~OnDisk(Join(PicDir(base_dir), ImgB))
    /\ DOMAIN all_captions = {Abspath(Join(PicDir(base_dir), ImgA))}

(***************************************************************************)
(* Properties of collect_all_caption_data                                  *)
(***************************************************************************)
\* the directory that holds the absolute directory D
ParentOf(D) == IF Len(D) > 1 THEN Front(D) ELSE D

\* the captions caption.txt records for `name` in its first n lines, in line order
RECURSIVE RecordedFor(_, _, _)
RecordedFor(content, name, n) ==
    IF n = 0 THEN <<>>
    ELSE LET pair == BnaturePair(content[n])
         IN  IF pair # <<>> /\ pair[1] = name
             THEN Append(RecordedFor(content, name, n - 1), pair[2])
             ELSE RecordedFor(content, name, n - 1)

\* the stated contribution of the file at position i of the walk, a test.txt
BnatureExpected(i) ==
    LET D == tree[i].dir
        listed == {Strip(tree[i].content[j]) : j \in 1..Len(tree[i].content)} \ {<<>>}
        capfiles == {j \in 1..Len(tree) : tree[j].dir = D /\ tree[j].name = CaptionTxt}
        captxt == IF capfiles = {} THEN <<>> ELSE tree[CHOOSE j \in capfiles : TRUE].content
        caps(n) == RecordedFor(captxt, n, Len(captxt))
        key(n) == ParentOf(Abspath(D)) \o <<PicturesName, n>>
        kept == {n \in listed : caps(n) # <<>> /\ (validate_images => key(n) \in disk.files \cup disk.dirs)}
    IN  [k \in {key(n) : n \in kept} |-> caps(CHOOSE n \in kept : key(n) = k)]

\* C5: a file named test.txt (case-insensitive) in D contributes exactly one entry per
\* listed name that has a caption in D/caption.txt (and an existing image under
\* validation), keyed by the absolute parent(D)/Pictures/<name>, holding all the
\* captions recorded for the name in caption.txt line order.
C5_BnatureJoin ==
    fn = "collect" =>
        \A i \in 1..file_idx :
            Lower(tree[i].name) = TestTxt => contribs[i] = BnatureExpected(i)

\* a join where one listed name has two captions and another listed name has none
C5_Witness ==
    /\ fn = "collect" /\ status = "done" /\ Len(tree) = 2 /\ tree[2].name = TestTxt
    /\ Len(tree[2].content) = 2
    /\ Strip(tree[2].content[1]) = ImgA /\ Strip(tree[2].content[2]) = ImgB
    /\ Len(RecordedFor(tree[1].content, ImgA, Len(tree[1].content))) = 2
    /\ all_captions = (Abspath(Join(PicDir(base_dir), ImgA)) :>
                         RecordedFor(tree[1].content, ImgA, Len(tree[1].content)))

\* the BNLIT rule on a lowercased file name, stated from positions in the name
BnlitRule(lf) ==
    \/ HasDelim(lf, TestAnnotation) /\ HasDelim(lf, Bnlit)
    \/ (Len(lf) >= Len(BnlitLongPrefix) /\ \A j \in 1..Len(BnlitLongPrefix) : lf[j] = BnlitLongPrefix[j])

\* the first existing directory of [D/resized, D, parent(D)], the last one if none
ChosenImagesDir(D) ==
    LET cands == <<Abspath(D) \o <<resized_folder>>, Abspath(D), ParentOf(Abspath(D))>>
        ok == {j \in 1..3 : j = 3 \/ cands[j] \in disk.dirs}
    IN  cands[CHOOSE j \in ok : \A q \in ok : j <= q]

\* the image names of the lines of annotation file i that reach the merge
BnlitNames(i) ==
    {BnlitPair(tree[i].content[j])[1] :
        j \in {q \in 1..Len(tree[i].content) : Len(BnlitPair(tree[i].content[q])) = 2}}

\* C6: the keys a BNLIT test-annotation file in D contributes are the absolute paths
\* <chosen>/<image name>, chosen being the first existing directory of
\* [D/resized folder, D, parent(D)]; with the resized folder missing and D holding
\* the image, the single line "a #x" yields abs(D/a) -> ["x"].
C6_BnlitImagesDir ==
    fn = "collect" =>
        \A i \in 1..file_idx :
            BnlitRule(Lower(tree[i].name)) /\ Lower(tree[i].name) # TestTxt =>
                LET chosen == ChosenImagesDir(tree[i].dir)
                    key(n) == IF n = <<>> THEN chosen ELSE chosen \o <<n>>
                IN  /\ DOMAIN contribs[i] =
                         {key(n) : n \in {m \in BnlitNames(i) :
                                            validate_images => key(m) \in disk.dirs \cup disk.files}}
                    /\ (/\ tree[i].content = <<<<"a", " ", "#", "x">>>>
                        /\ Abspath(tree[i].dir) \o <<resized_folder>> \notin disk.dirs
                        /\ Abspath(tree[i].dir) \o <<ImgA>> \in disk.files)
                           => contribs[i] = (Abspath(tree[i].dir) \o <<ImgA>> :> <<<<"x">>>>)

\* validation on, resized folder missing, image next to the annotation file
C6_Witness ==
    /\ fn = "collect" /\ status = "done" /\ validate_images /\ Len(tree) = 1
    /\ tree[1].name = NameBnlit
    /\ tree[1].content = <<<<"a", " ", "#", "x">>>>
    /\ ~IsDir(disk, ResizedDir(base_dir))
    /\ all_captions = (Abspath(Join(tree[1].dir, ImgA)) :> <<<<"x">>>>)

\* the generic skip rule on a lowercased file name, stated from positions in the name
SkipRule(lf) ==
    /\ \E ext \in {DotTxt, DotJson} :
         Len(lf) >= Len(ext) /\ SubSeq(lf, Len(lf) - Len(ext) + 1, Len(lf)) = ext
    /\ \E w \in SkipWords : HasDelim(lf, w)

\* C7: a .txt/.json file whose lowercased name holds a skip word contributes nothing,
\* unless the name is test.txt or matches the BNLIT rule; a name matching the BNLIT
\* rule is processed as an annotation file even when it holds a skip word.
C7_SkipRule ==
    fn = "collect" =>
        \A i \in 1..file_idx :
            LET lf == Lower(tree[i].name)
            IN  /\ (SkipRule(lf) /\ lf # TestTxt /\ ~BnlitRule(lf)) => contribs[i] = EmptyMap
                /\ (SkipRule(lf) /\ BnlitRule(lf) /\ ~validate_images) =>
                       \A n \in BnlitNames(i) :
                           Abspath(Join(ImagesDir(tree[i].dir, disk), n)) \in DOMAIN contribs[i]

\* a walk that met train_captions.txt, holding a well-formed line, and a BNLIT
\* annotation file whose name holds the skip word "val"
C7_Witness ==
    /\ fn = "collect" /\ status = "done" /\ ~validate_images
    /\ \E i, j \in 1..Len(tree) :
         /\ tree[i].name = NameTrainCaptions
         /\ TxtPair(tree[i].content[1]) # <<>>
         /\ contribs[i] = EmptyMap
         /\ tree[j].name = NameBnlitVal
         /\ DOMAIN contribs[j] # {}
         /\ DOMAIN all_captions = DOMAIN contribs[j]

\* C8: after every merge, the value of each key of all_captions is the list produced
\* by the last file so far that contributed the key; the keys are those some file
\* contributed.
C8_LastFileWins ==
    fn = "collect" =>
        /\ DOMAIN all_captions = UNION {DOMAIN contribs[i] : i \in 1..Len(contribs)}
        /\ \A k \in DOMAIN all_captions :
             LET from == {i \in 1..Len(contribs) : k \in DOMAIN contribs[i]}
                 last == CHOOSE i \in from : \A j \in from : j <= i
             IN  all_captions[k] = contribs[last][k]

\* two files gave different lists for one key, and the earlier file also gave a key
\* no later file gave
C8_Witness ==
    /\ fn = "collect" /\ status = "done"
    /\ \E i, j \in 1..Len(contribs) : \E k, k2 \in DOMAIN contribs[i] :
         /\ i < j
         /\ k \in DOMAIN contribs[j] /\ contribs[i][k] # contribs[j][k]
         /\ all_captions[k] = contribs[j][k]
         /\ \A q \in (i + 1)..Len(contribs) : k2 \notin DOMAIN contribs[q]
         /\ all_captions[k2] = contribs[i][k2]

\* C9: every caption of the returned mapping is a non-empty string without leading or
\* trailing whitespace, and no key stands for an empty image name (a directory).
C9_CaptionsNonEmptyTrimmed ==
    (fn = "collect" /\ status = "done") =>
        \A k \in DOMAIN all_captions :
            /\ k \notin disk.dirs
            /\ \A n \in 1..Len(all_captions[k]) :
                 all_captions[k][n] # <<>> /\ Trimmed(all_captions[k][n])

\* the file at position i of the walk is a test.txt or a BNLIT test-annotation file
DatasetFile(i) == Lower(tree[i].name) = TestTxt \/ BnlitRule(Lower(tree[i].name))

\* k lies below the absolute directory dir
Under(k, dir) == Len(k) > Len(dir) /\ SubSeq(k, 1, Len(dir)) = dir

\* every visited file that is neither a test.txt nor a BNLIT test-annotation file
\* contributed nothing, whatever its extension, skip words and content
NoGenericDispatch ==
    \A i \in 1..file_idx : ~DatasetFile(i) => contribs[i] = EmptyMap

\* every key stored came from a test.txt or a BNLIT test-annotation file and is an
\* absolute path below that file's Pictures directory or BNLIT images directory
KeysUnderDatasetDirs ==
    \A k \in DOMAIN all_captions :
        /\ IsAbs(k)
        /\ \E i \in 1..file_idx :
             /\ DatasetFile(i)
             /\ k \in DOMAIN contribs[i]
             /\ IF Lower(tree[i].name) = TestTxt
                THEN Under(k, ParentOf(Abspath(tree[i].dir)) \o <<PicturesName>>)
                ELSE Under(k, ChosenImagesDir(tree[i].dir))

\* C11: collect_all_caption_data never hands a file to the generic JSON or
\* delimited-text parser: a visited file that is neither test.txt nor a BNLIT
\* test-annotation file contributes nothing, and every key of the mapping is an
\* absolute path under a Pictures directory or a BNLIT images directory.
C11_OnlyDatasetBranches ==
    fn = "collect" => NoGenericDispatch /\ KeysUnderDatasetDirs

====
